---- MODULE Spec2Model ----
(***************************************************************************)
(* A model of the constraint-satisfaction solver of                        *)
(* src/ch3_constraint_satisfaction_problems: the CSP engine (csp.rs) and   *)
(* the two constraint variants of the repository, NotEqualConstraint       *)
(* (csp.rs) and MapColoringConstraint (map_coloring.rs).                   *)
(*                                                                         *)
(* Variables (type V) and domain values (type D) are opaque to the engine; *)
(* both are modelled as small integers.  A HashMap is a function whose     *)
(* DOMAIN is its key set, a Vec is a sequence, an Option is a sequence of  *)
(* length at most one.                                                     *)
(***************************************************************************)
EXTENDS Naturals, Sequences, FiniteSets

\* ------------------------------------------------------------------ bounds
NumNames == 3
MaxVars == 3
MaxScope == 3
MaxConstraints == 2
MaxVal == 2
MaxDomLen == 2
MaxSeededConstraints == 1

Names == 1..NumNames
Values == 1..MaxVal

\* ----------------------------------------------------------------- helpers
Range(s) == {s[i] : i \in DOMAIN s}

SeqsUpTo(S, n) == UNION {[1..k -> S] : k \in 0..n}

PartialMaps(K, V) == UNION {[S -> V] : S \in SUBSET K}

\* Option<T>
None == <<>>
Some(x) == <<x>>
IsSome(o) == Len(o) = 1

\* HashMap::new()
EmptyMap == <<>>

\* HashMap::insert
Insert(m, k, x) == [y \in DOMAIN m \cup {k} |-> IF y = k THEN x ELSE m[y]]

\* ------------------------------------------------------------- constraints
NotEqualConstraint(vs) == [kind |-> "NotEqual", variables |-> vs]

MapColoringConstraint(place1, place2) ==
    [kind |-> "MapColoring", variables |-> <<place1, place2>>]

\* The values of the scope variables that the assignment holds, in scope order.
PresentValues(c, assignment) ==
    LET present == SelectSeq(c.variables, LAMBDA v : v \in DOMAIN assignment)
    IN  [i \in 1..Len(present) |-> assignment[present[i]]]

\* NotEqualConstraint::satisfied without the test i != j: a value is compared
\* with itself.
NotEqualSatisfiedNoIndexTest(c, assignment) ==
    LET values == PresentValues(c, assignment)
    IN  ~ \E i, j \in 1..Len(values) : values[i] = values[j]

\* NotEqualConstraint::satisfied: no two positions of the collected values
\* hold equal values.
NotEqualSatisfied(c, assignment) ==
    LET values == PresentValues(c, assignment)
    IN  ~ \E i, j \in 1..Len(values) : i # j /\ values[i] = values[j]

\* MapColoringConstraint::satisfied
MapColoringSatisfied(c, assignment) ==
    LET first == c.variables[1]
        last == c.variables[Len(c.variables)]
    IN  IF first \in DOMAIN assignment /\ last \in DOMAIN assignment
        THEN assignment[first] # assignment[last]
        ELSE TRUE

\* Constraint::satisfied, dispatched on the variant.
Satisfied(c, assignment) ==
    IF c.kind = "NotEqual"
    THEN NotEqualSatisfied(c, assignment)
    ELSE MapColoringSatisfied(c, assignment)

\* ------------------------------------------------------------------- state
VARIABLES
    pc,           \* "init" | "ready" | "panicked" | "searching" | "returning" | "done"
    variables,    \* CSP.variables: Vec<V>
    domains,      \* CSP.domains: HashMap<V, Vec<D>>
    constraints,  \* CSP.constraints: HashMap<V, Vec<Arc<dyn Constraint>>>
    registered,   \* history: the constraints whose add_constraint call returned
    call,         \* history: the last call made by the caller, with its arguments
    stack,        \* the frames of backtracking_search, the innermost last
    ret,          \* the value a finished invocation hands to its caller
    result        \* what the outermost call returned

vars == <<pc, variables, domains, constraints, registered, call, stack, ret, result>>

Init ==
    /\ pc = "init"
    /\ variables = <<>>
    /\ domains = EmptyMap
    /\ constraints = EmptyMap
    /\ registered = <<>>
    /\ call = [op |-> "none"]
    /\ stack = <<>>
    /\ ret = None
    /\ result = None

\* --------------------------------------------- Constraint::satisfied alone
SatConstraints ==
    {NotEqualConstraint(vs) : vs \in SeqsUpTo(Names, MaxScope)}
        \cup {MapColoringConstraint(p, q) : p, q \in Names}

SatisfiedCall(c, assignment) ==
    /\ pc = "init"
    /\ call' = [op |-> "satisfied", constraint |-> c, assignment |-> assignment]
    /\ result' = Satisfied(c, assignment)
    /\ pc' = "done"
    /\ UNCHANGED <<variables, domains, constraints, registered, stack, ret>>

NextSat ==
    /\ pc = "init"
    /\ \E c \in SatConstraints, a \in PartialMaps(Names, Values) : SatisfiedCall(c, a)

SpecSat == Init /\ [][NextSat]_vars

\* A scope variable of the last satisfied() call is absent from its assignment.
MissingScopeVariable ==
    /\ call.op = "satisfied"
    /\ \E v \in Range(call.constraint.variables) : v \notin DOMAIN call.assignment

\* Two scope positions of the last satisfied() call hold assigned variables
\* of equal value.
PresentClash ==
    \E i, j \in DOMAIN call.constraint.variables :
        /\ i < j
        /\ call.constraint.variables[i] \in DOMAIN call.assignment
        /\ call.constraint.variables[j] \in DOMAIN call.assignment
        /\ call.assignment[call.constraint.variables[i]]
               = call.assignment[call.constraint.variables[j]]

\* C5 as stated: satisfied() of either variant returns true for every
\* assignment that misses at least one scope variable.
C5_VacuousOnMissing ==
    MissingScopeVariable => result = TRUE

\* C5 amended: on an assignment that misses a scope variable,
\* MapColoringConstraint returns true, and NotEqualConstraint returns true
\* exactly when no two scope positions hold assigned variables of equal
\* value (so always when at most one scope position is assigned).
C5_VacuousUnlessPresentClash ==
    MissingScopeVariable =>
        IF call.constraint.kind = "MapColoring"
        THEN result = TRUE
        ELSE result = ~PresentClash

\* A NotEqualConstraint over three distinct variables, one of them unassigned
\* and the other two assigned the same value, is reported violated.
C5_Witness ==
    /\ MissingScopeVariable
    /\ call.constraint.kind = "NotEqual"
    /\ Cardinality(Range(call.constraint.variables)) = 3
    /\ PresentClash
    /\ result = FALSE

\* -------------------------------------------------------------- CSP engine
\* The test of CSP::new, were it to reject empty domain lists as well.
NewPanicsOnEmptyDomain(vs, ds) ==
    \E i \in DOMAIN vs : vs[i] \notin DOMAIN ds \/ ds[vs[i]] = <<>>

\* CSP::new panics when a variable has no entry in the domains mapping.
NewPanics(vs, ds) ==
    \E i \in DOMAIN vs : vs[i] \notin DOMAIN ds

\* CSP::new
New(vs, ds) ==
    /\ pc = "init"
    /\ call' = [op |-> "new", variables |-> vs, domains |-> ds]
    /\ IF NewPanics(vs, ds)
       THEN /\ pc' = "panicked"
            /\ UNCHANGED <<variables, domains, constraints>>
       ELSE /\ pc' = "ready"
            /\ variables' = vs
            /\ domains' = ds
            /\ constraints' = EmptyMap
    /\ UNCHANGED <<registered, stack, ret, result>>

\* The push of add_constraint, were it to put the constraint first.
PushFront(index, variable, c) ==
    IF variable \in DOMAIN index
    THEN [index EXCEPT ![variable] = <<c>> \o @]
    ELSE Insert(index, variable, <<c>>)

\* self.constraints.entry(variable).or_insert(vec![]).push(constraint)
Push(index, variable, c) ==
    IF variable \in DOMAIN index
    THEN [index EXCEPT ![variable] = Append(@, c)]
    ELSE Insert(index, variable, <<c>>)

RECURSIVE AddLoop(_, _, _, _)
\* The loop of add_constraint, were it to index the constraint under its
\* first scope variable only.
AddLoopFirstOnly(vs, index, c, k) ==
    IF k > Len(c.variables)
    THEN [constraints |-> index, panicked |-> FALSE]
    ELSE IF c.variables[k] \notin Range(vs)
         THEN [constraints |-> index, panicked |-> TRUE]
         ELSE AddLoop(vs, IF k = 1 THEN Push(index, c.variables[k], c) ELSE index,
                      c, k + 1)

\* The loop of add_constraint from scope position k on: the index it leaves
\* and whether it panicked.
AddLoop(vs, index, c, k) ==
    IF k > Len(c.variables)
    THEN [constraints |-> index, panicked |-> FALSE]
    ELSE IF c.variables[k] \notin Range(vs)
         THEN [constraints |-> index, panicked |-> TRUE]
         ELSE AddLoop(vs, Push(index, c.variables[k], c), c, k + 1)

\* CSP::add_constraint
AddConstraint(c) ==
    /\ pc = "ready"
    /\ call' = [op |-> "add_constraint", constraint |-> c]
    /\ LET r == AddLoop(variables, constraints, c, 1)
       IN  /\ constraints' = r.constraints
           /\ pc' = IF r.panicked THEN "panicked" ELSE "ready"
           /\ registered' = IF r.panicked THEN registered ELSE Append(registered, c)
    /\ UNCHANGED <<variables, domains, stack, ret, result>>

\* ------------------------------------------- construction and registration
BuildVariables == SeqsUpTo(Names, MaxVars)

BuildDomains == PartialMaps(Names, {<<>>, <<1>>})

BuildConstraints ==
    {NotEqualConstraint(vs) : vs \in SeqsUpTo(Names, MaxScope)}
        \cup {MapColoringConstraint(p, q) : p, q \in Names}

NextBuild ==
    \/ /\ pc = "init"
       /\ \E vs \in BuildVariables, ds \in BuildDomains : New(vs, ds)
    \/ /\ pc = "ready"
       /\ Len(registered) < MaxConstraints
       /\ \E c \in BuildConstraints : AddConstraint(c)

SpecBuild == Init /\ [][NextBuild]_vars

\* C7: CSP::new panics exactly when some variable of the list has no entry in
\* the domains mapping (an empty domain list is an entry); when it returns,
\* the CSP holds the given variables and domains and an empty index.
C7_NewPanicsIffDomainMissing ==
    call.op = "new" =>
        /\ pc \in {"ready", "panicked"}
        /\ pc = "panicked" <=> ~ (Range(call.variables) \subseteq DOMAIN call.domains)
        /\ pc = "ready" =>
              /\ variables = call.variables
              /\ domains = call.domains
              /\ constraints = EmptyMap

\* CSP::new accepted a variable whose domain list is empty, together with a
\* domains mapping that has an entry for a name that is no variable.
C7_Witness ==
    /\ call.op = "new"
    /\ pc = "ready"
    /\ \E i \in DOMAIN variables : domains[variables[i]] = <<>>
    /\ DOMAIN domains # Range(variables)

\* The index entry of a variable, empty when the variable has none.
Entry(index, v) == IF v \in DOMAIN index THEN index[v] ELSE <<>>

Copies(c, n) == [i \in 1..n |-> c]

\* The first scope position that names no variable of the list vs, one past
\* the scope's end when there is none.
FirstUnknown(vs, c) ==
    CHOOSE k \in 1..(Len(c.variables) + 1) :
        /\ k = Len(c.variables) + 1 \/ c.variables[k] \notin Range(vs)
        /\ \A j \in 1..(k - 1) : c.variables[j] \in Range(vs)

\* Index after is index before with c appended once per scope position
\* below n, under the variable at that position, and nothing else changed.
AppendedBelow(before, after, c, n) ==
    /\ DOMAIN after = DOMAIN before \cup {c.variables[k] : k \in 1..(n - 1)}
    /\ \A v \in DOMAIN after :
          after[v] = Entry(before, v)
                       \o Copies(c, Cardinality({k \in 1..(n - 1) : c.variables[k] = v}))

\* C6 as stated: add_constraint panics exactly when a scope variable is
\* unknown, a failed registration leaves the index as it was, and a successful
\* one appends the constraint to the entry of every scope variable and changes
\* nothing else.
C6_AllOrNothing ==
    [][(pc = "ready" /\ call'.op = "add_constraint") =>
          LET c == call'.constraint
              n == FirstUnknown(variables, c)
          IN  /\ pc' = "panicked" <=> n <= Len(c.variables)
              /\ pc' = "ready" <=> n = Len(c.variables) + 1
              /\ pc' = "panicked" => constraints' = constraints
              /\ pc' = "ready" => AppendedBelow(constraints, constraints', c, n)
              /\ variables' = variables
              /\ domains' = domains]_vars

\* C6 amended: add_constraint panics exactly when a scope variable is unknown;
\* it then leaves the constraint appended to the entries of the scope
\* variables that precede the first unknown one; a successful registration
\* appends it to the entry of every scope variable; nothing else changes.
C6_RegisteredUpToFirstUnknown ==
    [][(pc = "ready" /\ call'.op = "add_constraint") =>
          LET c == call'.constraint
              n == FirstUnknown(variables, c)
          IN  /\ pc' = "panicked" <=> n <= Len(c.variables)
              /\ pc' = "ready" <=> n = Len(c.variables) + 1
              /\ AppendedBelow(constraints, constraints', c, n)
              /\ variables' = variables
              /\ domains' = domains]_vars

\* A registration that panicked on a later scope variable after it had
\* appended the constraint to a non-empty entry of an earlier one.
C6_Witness ==
    /\ pc = "panicked"
    /\ call.op = "add_constraint"
    /\ \A i \in DOMAIN registered : registered[i] # call.constraint
    /\ \E v \in DOMAIN constraints :
          /\ Len(constraints[v]) >= 2
          /\ constraints[v][Len(constraints[v])] = call.constraint

\* ------------------------------------------------------ backtracking search
\* CSP::consistent, were it to look at the first indexed constraint only.
ConsistentFirstOnly(variable, assignment) ==
    IF variable \in DOMAIN constraints
    THEN Satisfied(constraints[variable][1], assignment)
    ELSE TRUE

\* CSP::consistent
Consistent(variable, assignment) ==
    IF variable \in DOMAIN constraints
    THEN \A i \in DOMAIN constraints[variable] :
            Satisfied(constraints[variable][i], assignment)
    ELSE TRUE

\* The base case test, off by one.
IsCompleteOffByOne(assignment) == Cardinality(DOMAIN assignment) + 1 >= Len(variables)

\* assignment.len() == self.variables.len()
IsComplete(assignment) == Cardinality(DOMAIN assignment) = Len(variables)

\* The unassigned variables, were they collected in reverse list order.
UnassignedReversed(assignment) ==
    LET u == SelectSeq(variables, LAMBDA v : v \notin DOMAIN assignment)
    IN  [i \in 1..Len(u) |-> u[Len(u) + 1 - i]]

\* The variables of the list that are no key of the assignment, in list order.
Unassigned(assignment) ==
    SelectSeq(variables, LAMBDA v : v \notin DOMAIN assignment)

\* A frame of backtracking_search: its assignment and the position in the
\* domain of its first unassigned variable of the value it tries next.
Frame(assignment) == [assignment |-> assignment, i |-> 1]

Top == stack[Len(stack)]

\* The candidates, were they read from the domain of the last variable of
\* the list instead of the first unassigned one.
CandidatesOfLast(assignment) ==
    IF Unassigned(assignment) = <<>>
    THEN <<>>
    ELSE domains[variables[Len(variables)]]

\* The candidates the top frame iterates over: the domain of its first
\* unassigned variable, none when every variable is assigned.
Candidates(assignment) ==
    IF Unassigned(assignment) = <<>>
    THEN <<>>
    ELSE domains[Head(Unassigned(assignment))]

\* The top frame returns r to its caller.
Return(r) ==
    LET rest == SubSeq(stack, 1, Len(stack) - 1)
    IN  /\ stack' = rest
        /\ IF rest = <<>>
           THEN /\ pc' = "done"
                /\ result' = r
                /\ ret' = None
           ELSE /\ pc' = "returning"
                /\ ret' = r
                /\ UNCHANGED result

\* The caller invokes backtracking_search on the CSP.
BacktrackingSearch(assignment) ==
    /\ pc \in {"ready", "done"}
    /\ call' = [op |-> "backtracking_search", assignment |-> assignment]
    /\ pc' = "searching"
    /\ stack' = <<Frame(assignment)>>
    /\ ret' = None
    /\ result' = None
    /\ UNCHANGED <<variables, domains, constraints, registered>>

\* Base case: the assignment has as many entries as there are variables.
ReturnComplete ==
    /\ pc = "searching"
    /\ IsComplete(Top.assignment)
    /\ Return(Some(Top.assignment))
    /\ UNCHANGED <<variables, domains, constraints, registered, call>>

\* One iteration of the loop over the domain of the first unassigned
\* variable: extend a copy of the assignment and recurse when consistent.
TryValue ==
    /\ pc = "searching"
    /\ ~ IsComplete(Top.assignment)
    /\ Top.i <= Len(Candidates(Top.assignment))
    /\ LET first == Head(Unassigned(Top.assignment))
           value == Candidates(Top.assignment)[Top.i]
           local_assignment == Insert(Top.assignment, first, value)
       IN  IF Consistent(first, local_assignment)
           THEN stack' = Append(stack, Frame(local_assignment))
           ELSE stack' = [stack EXCEPT ![Len(stack)].i = @ + 1]
    /\ UNCHANGED <<pc, variables, domains, constraints, registered, call, ret, result>>

\* The recursive call returned a solution: hand it on.
ReturnResult ==
    /\ pc = "returning"
    /\ IsSome(ret)
    /\ Return(ret)
    /\ UNCHANGED <<variables, domains, constraints, registered, call>>

\* The loop, were it to return the recursive call's None instead of going on.
NextValueGivesUp ==
    /\ pc = "returning"
    /\ ~ IsSome(ret)
    /\ Return(None)
    /\ UNCHANGED <<variables, domains, constraints, registered, call>>

\* The recursive call returned None: go on with the next value.
NextValue ==
    /\ pc = "returning"
    /\ ~ IsSome(ret)
    /\ pc' = "searching"
    /\ stack' = [stack EXCEPT ![Len(stack)].i = @ + 1]
    /\ ret' = None
    /\ UNCHANGED <<variables, domains, constraints, registered, call, result>>

\* No unassigned variable, or its domain is exhausted: return None.
ReturnNone ==
    /\ pc = "searching"
    /\ ~ IsComplete(Top.assignment)
    /\ Top.i > Len(Candidates(Top.assignment))
    /\ Return(None)
    /\ UNCHANGED <<variables, domains, constraints, registered, call>>

SearchStep ==
    \/ ReturnComplete
    \/ TryValue
    \/ ReturnResult
    \/ NextValue
    \/ ReturnNone

\* ------------------------------------------ search from the empty assignment
DomLists == SeqsUpTo(Values, MaxDomLen)

\* Variables are opaque to the engine (V: Eq + Hash + Clone), so every variable
\* list is a renaming of one whose names first occur in increasing order;
\* repeated names are kept.
SearchVariables ==
    {vs \in SeqsUpTo(Names, MaxVars) :
        \A i \in DOMAIN vs : vs[i] <= Cardinality({vs[j] : j \in 1..(i - 1)}) + 1}

SearchConstraints ==
    {NotEqualConstraint(vs) : vs \in SeqsUpTo(Names, MaxScope)}
        \cup {MapColoringConstraint(p, q) : p, q \in Names}

NextSearch ==
    \/ /\ pc = "init"
       /\ \E vs \in SearchVariables : \E ds \in [Range(vs) -> DomLists] : New(vs, ds)
    \/ /\ pc = "ready"
       /\ Len(registered) < MaxConstraints
       /\ \E c \in SearchConstraints : AddConstraint(c)
    \/ BacktrackingSearch(EmptyMap)
    \/ SearchStep

SpecSearch == Init /\ [][NextSearch]_vars

\* The last call was backtracking_search with the empty assignment.
EmptyStart == call.op = "backtracking_search" /\ call.assignment = EmptyMap

Distinct(vs) == \A i, j \in DOMAIN vs : i # j => vs[i] # vs[j]

\* The assignments of one value of its domain to every variable of the CSP.
CompleteAssignments ==
    {a \in [Range(variables) -> UNION {Range(domains[v]) : v \in DOMAIN domains}] :
        \A v \in Range(variables) : a[v] \in Range(domains[v])}

\* The complete assignments that every registered constraint accepts.
Solutions ==
    {a \in CompleteAssignments : \A c \in Range(registered) : Satisfied(c, a)}

\* C1: a search from the empty assignment over distinct variables returns
\* only assignments that satisfy every registered constraint.
C1_SoundFromEmpty ==
    (pc = "done" /\ EmptyStart /\ Distinct(variables) /\ IsSome(result)) =>
        \A c \in Range(registered) : Satisfied(c, result[1])

\* A search over three distinct variables and two constraints that returned a
\* solution whose first variable does not hold its first domain value: the
\* search went back to the first variable.
C1_Witness ==
    /\ pc = "done"
    /\ EmptyStart
    /\ Distinct(variables)
    /\ Len(variables) = 3
    /\ Len(registered) = 2
    /\ IsSome(result)
    /\ result[1][variables[1]] # domains[variables[1]][1]
    /\ Solutions # CompleteAssignments

\* C2: a search from the empty assignment over distinct variables returns
\* None exactly when no complete assignment satisfies every registered
\* constraint.
C2_NoneIffUnsatisfiable ==
    (pc = "done" /\ EmptyStart /\ Distinct(variables)) =>
        (result = None <=> Solutions = {})

\* Two variables with domain [1] each and a not-equal constraint between
\* them: the search returns None.
C2_Witness ==
    /\ pc = "done"
    /\ EmptyStart
    /\ variables = <<1, 2>>
    /\ domains = [v \in {1, 2} |-> <<1>>]
    /\ registered = <<NotEqualConstraint(<<1, 2>>)>>
    /\ result = None

\* The first position of value x in the domain list of variable v.
Position(v, x) ==
    CHOOSE i \in DOMAIN domains[v] :
        /\ domains[v][i] = x
        /\ \A j \in 1..(i - 1) : domains[v][j] # x

\* Complete assignment s comes before t: at the first variable of the list
\* where they differ, the value of s comes first in the variable's domain.
LexBefore(s, t) ==
    \E k \in DOMAIN variables :
        /\ \A j \in 1..(k - 1) : s[variables[j]] = t[variables[j]]
        /\ Position(variables[k], s[variables[k]])
              < Position(variables[k], t[variables[k]])

\* C3: a search from the empty assignment over distinct variables returns
\* the solution that comes first by variable order and domain position; the
\* solutions depend on the set of registered constraints only, so the result
\* depends neither on the registration order nor on the call.
C3_FirstSolution ==
    (pc = "done" /\ EmptyStart /\ Distinct(variables) /\ Solutions # {}) =>
        /\ IsSome(result)
        /\ result[1] \in Solutions
        /\ \A t \in Solutions \ {result[1]} : LexBefore(result[1], t)

\* Three distinct variables, two different constraints, several solutions,
\* and the one returned is not the first complete assignment.
C3_Witness ==
    /\ pc = "done"
    /\ EmptyStart
    /\ Distinct(variables)
    /\ Len(variables) = 3
    /\ Len(registered) = 2
    /\ registered[1] # registered[2]
    /\ Cardinality(Solutions) >= 2
    /\ IsSome(result)
    /\ \E a \in CompleteAssignments \ Solutions : LexBefore(a, result[1])

\* The first variable of the list that is no key of the assignment.
FirstOpen(assignment) ==
    variables[CHOOSE k \in DOMAIN variables :
                 /\ variables[k] \notin DOMAIN assignment
                 /\ \A j \in 1..(k - 1) : variables[j] \in DOMAIN assignment]

\* Every frame's assignment has a prefix of the variable list as its keys and
\* satisfies every registered constraint.
FramesConsistent ==
    (pc \in {"searching", "returning"} /\ EmptyStart) =>
        \A n \in DOMAIN stack :
            /\ \E k \in 0..Len(variables) :
                  DOMAIN stack[n].assignment = {variables[j] : j \in 1..k}
            /\ \A c \in Range(registered) : Satisfied(c, stack[n].assignment)

\* A loop iteration recurses into the extended assignment exactly when the
\* registered constraints that name the new variable are satisfied by it.
RecurseIffConsistent ==
    (pc = "searching" /\ pc' = "searching" /\ stack' # stack /\ EmptyStart) =>
        LET first == FirstOpen(Top.assignment)
            extension == Insert(Top.assignment, first, domains[first][Top.i])
        IN  (\A c \in Range(registered) :
                first \in Range(c.variables) => Satisfied(c, extension))
              <=> stack' = Append(stack, [assignment |-> extension, i |-> 1])

\* C10: in a search from the empty assignment every invocation's assignment
\* has a prefix of the variable list as keys and satisfies every registered
\* constraint, and an extension is recursed into exactly when the constraints
\* indexed under the newly assigned variable are satisfied by it.
C10_LocalCheckSuffices ==
    []FramesConsistent /\ [][RecurseIffConsistent]_vars

\* An invocation with three distinct variables assigned, reached after an
\* earlier value was rejected, while a registered constraint over two other
\* variables is not indexed under the variable assigned last.
C10_Witness ==
    /\ pc = "searching"
    /\ EmptyStart
    /\ Distinct(variables)
    /\ Len(stack) = 4
    /\ \E n \in DOMAIN stack : stack[n].i > 1
    /\ \E c \in Range(registered) :
          /\ Cardinality(Range(c.variables)) = 2
          /\ variables[3] \notin Range(c.variables)

\* ----------------------------------------- search from a seeded assignment
NextSeeded ==
    \/ /\ pc = "init"
       /\ \E vs \in SearchVariables : \E ds \in [Range(vs) -> DomLists] : New(vs, ds)
    \/ /\ pc = "ready"
       /\ Len(registered) < MaxSeededConstraints
       /\ \E c \in SearchConstraints : AddConstraint(c)
    \/ /\ pc \in {"ready", "done"}
       /\ \E assignment \in PartialMaps(Names, Values) : BacktrackingSearch(assignment)
    \/ SearchStep

SpecSeeded == Init /\ [][NextSeeded]_vars

\* The initial assignment of the last search maps variables of the CSP to
\* values of their domains.
SeedOverCSP ==
    /\ call.op = "backtracking_search"
    /\ DOMAIN call.assignment \subseteq Range(variables)
    /\ \A v \in DOMAIN call.assignment : call.assignment[v] \in Range(domains[v])

\* The returned assignment has exactly the variables as keys, each with a
\* value of its domain.
ResultTotal ==
    /\ DOMAIN result[1] = Range(variables)
    /\ \A v \in Range(variables) : result[1][v] \in Range(domains[v])

\* C4 as stated: whatever the initial assignment, the result is None or an
\* assignment of a domain value to exactly the variables of the CSP.
C4_NeverPartial ==
    (pc = "done" /\ IsSome(result)) => ResultTotal

\* C4 amended: the same, for initial assignments that map variables of the
\* CSP to values of their domains (the empty one included).
C4_NeverPartialSeedOverCSP ==
    (pc = "done" /\ SeedOverCSP /\ IsSome(result)) => ResultTotal

\* A search seeded with one of three variables returned a solution that
\* keeps the seeded value.
C4_Witness ==
    /\ pc = "done"
    /\ SeedOverCSP
    /\ Cardinality(DOMAIN call.assignment) = 1
    /\ Len(variables) = 3
    /\ IsSome(result)
    /\ \A v \in DOMAIN call.assignment : result[1][v] = call.assignment[v]

HasEmptyDomain == \E v \in Range(variables) : domains[v] = <<>>

\* C8 as stated: with an empty domain the search returns None whatever the
\* initial assignment is.
C8_EmptyDomainNone ==
    (pc = "done" /\ HasEmptyDomain) => result = None

\* C8 amended: with an empty domain the search returns None for every
\* initial assignment that maps variables of the CSP to values of their
\* domains (the empty one included).
C8_EmptyDomainNoneSeedOverCSP ==
    (pc = "done" /\ SeedOverCSP /\ HasEmptyDomain) => result = None

\* The last variable has an empty domain, the first is seeded, the second has
\* values to try, and the search returned None.
C8_Witness ==
    /\ pc = "done"
    /\ SeedOverCSP
    /\ Distinct(variables)
    /\ Len(variables) = 3
    /\ DOMAIN call.assignment = {variables[1]}
    /\ domains[variables[2]] # <<>>
    /\ domains[variables[3]] = <<>>
    /\ result = None

\* C9: a search seeded with a non-empty assignment of domain values to
\* variables of the CSP returns only assignments that satisfy every
\* registered constraint.
C9_SeededSound ==
    (pc = "done" /\ SeedOverCSP /\ call.assignment # EmptyMap /\ IsSome(result)) =>
        \A c \in Range(registered) : Satisfied(c, result[1])

\* ------------------------------------------------- the repository's tests
\* tests::test_csp: variables A, B, C (1, 2, 3), domain [1, 2, 3] each, and
\* the three pairwise not-equal constraints.
TestCspVariables == <<1, 2, 3>>

TestCspDomains == [v \in {1, 2, 3} |-> <<1, 2, 3>>]

TestCspConstraints ==
    {NotEqualConstraint(<<1, 2>>), NotEqualConstraint(<<2, 3>>),
     NotEqualConstraint(<<1, 3>>)}

\* test_australia_map_coloring: the seven regions in the order of the test
\* (1 Western Australia, 2 Northern Territory, 3 South Australia,
\* 4 Queensland, 5 New South Wales, 6 Victoria, 7 Tasmania), the colours
\* red, green, blue (1, 2, 3), and the ten adjacency constraints.
AustraliaVariables == <<1, 2, 3, 4, 5, 6, 7>>

AustraliaDomains == [v \in Range(AustraliaVariables) |-> <<1, 2, 3>>]

AustraliaConstraints ==
    <<MapColoringConstraint(1, 2), MapColoringConstraint(1, 3),
      MapColoringConstraint(2, 3), MapColoringConstraint(2, 4),
      MapColoringConstraint(3, 4), MapColoringConstraint(3, 5),
      MapColoringConstraint(3, 6), MapColoringConstraint(4, 5),
      MapColoringConstraint(5, 6), MapColoringConstraint(6, 7)>>

\* The tests' calls; the constraints of test_csp in any order, one
\* registration each, those of the map in the order of the test.
NextTests ==
    \/ New(TestCspVariables, TestCspDomains)
    \/ New(AustraliaVariables, AustraliaDomains)
    \/ /\ variables = TestCspVariables
       /\ \E c \in TestCspConstraints \ Range(registered) : AddConstraint(c)
    \/ /\ variables = AustraliaVariables
       /\ Len(registered) < Len(AustraliaConstraints)
       /\ AddConstraint(AustraliaConstraints[Len(registered) + 1])
    \/ BacktrackingSearch(EmptyMap)
    \/ SearchStep

SpecTests == Init /\ [][NextTests]_vars

\* test_csp asserts the result {A: 1, B: 2, C: 3}, here for every order of
\* registration of its three constraints.
TestCspExpected ==
    (pc = "done" /\ variables = TestCspVariables
       /\ Range(registered) = TestCspConstraints) =>
        result = Some([v \in {1, 2, 3} |-> v])

\* test_australia_map_coloring asserts a solution of seven entries in which
\* the two regions of every adjacency differ.
AustraliaExpected ==
    (pc = "done" /\ variables = AustraliaVariables
       /\ registered = AustraliaConstraints) =>
        /\ IsSome(result)
        /\ Cardinality(DOMAIN result[1]) = 7
        /\ \A i \in DOMAIN AustraliaConstraints :
              result[1][AustraliaConstraints[i].variables[1]]
                # result[1][AustraliaConstraints[i].variables[2]]

====
